---- MODULE Spec2Model ----
(***************************************************************************)
(* micrograd/engine.go: a scalar reverse-mode automatic-differentiation    *)
(* engine.  A client builds a graph of Value nodes with the operator       *)
(* constructors and calls Backward on a node of its choice.                *)
(*                                                                         *)
(* Numbers.  The float64 fields are modelled by exact numbers: data is an  *)
(* integer, and a gradient is a polynomial c0 + c1*L + c2*L^2 + ... with   *)
(* integer coefficients in L = ln 2 (math.Log is the only source of        *)
(* non-integers).  A constructor is offered only on inputs whose result    *)
(* stays in this domain (PowInDomain); on it the float64 operations of the *)
(* source are exact.                                                       *)
(*                                                                         *)
(* Identity.  A *Value is its index in nodes (allocation order).           *)
(***************************************************************************)
EXTENDS Integers, Sequences, FiniteSets, TLC

\* ---- bounds of the model ----
MaxCalls == 3
MaxCallsTwice == 2
MaxBackward == 2
MaxSets == 1
MaxBase == 16
MaxExp == 4

LeafVals == {-4, 0, 2}
Scalars == {-1, 2}
GradVals == {1, 3}

\* The client programs explored: up to MaxCalls constructor calls and one
\* Backward, or up to MaxCallsTwice constructor calls, MaxBackward Backward
\* calls and MaxSets writes of a gradient by the client.
Budgets ==
    {[ctor |-> MaxCalls, back |-> 1, sets |-> 0],
     [ctor |-> MaxCallsTwice, back |-> MaxBackward, sets |-> MaxSets]}

NoBudget == [ctor |-> 0, back |-> 0, sets |-> 0]

VARIABLES
    nodes,      \* the Values allocated so far, in allocation order
    pc,         \* "idle", or where the running Backward is: "topo", "reverse"
    stack,      \* the activations of buildTopo, innermost last
    visited,    \* Backward's visited map (the keys mapped to true)
    topo,       \* Backward's topo slice
    processed,  \* Backward's processed map
    idx,        \* the loop variable i of the backward pass, plus 1
    budget,     \* what the client may still be asked to do
    nctor,      \* constructor calls made
    nset,       \* gradient writes made by the client
    step,       \* position of the scripted client (TestSanityCheck)
    passes,     \* history: per Backward call its root and the gradients before it
    calls,      \* history: how often each node's backward ran in this pass
    fin         \* history: each node's gradient when its backward ran

vars == <<nodes, pc, stack, visited, topo, processed, idx,
          budget, nctor, nset, step, passes, calls, fin>>

\* ---- numbers ----
\* the highest power of L a gradient can hold: one per Pow node on a path
Deg == MaxCalls

PZero == [k \in 0..Deg |-> 0]

POne == [k \in 0..Deg |-> IF k = 0 THEN 1 ELSE 0]

PConst(c) == [k \in 0..Deg |-> IF k = 0 THEN c ELSE 0]

PAdd(p, q) == [k \in 0..Deg |-> p[k] + q[k]]

PScale(c, p) == [k \in 0..Deg |-> c * p[k]]

\* c * L * p
PLog(c, p) == [k \in 0..Deg |-> IF k = 0 THEN 0 ELSE c * p[k - 1]]

RECURSIVE IPow(_, _)
IPow(b, e) ==
    IF e = 0 THEN 1
    ELSE IF e < 0 THEN IPow(b, -e)
    ELSE b * IPow(b, e - 1)

RECURSIVE IsPow2(_)
IsPow2(x) == x >= 1 /\ (x = 1 \/ (x % 2 = 0 /\ IsPow2(x \div 2)))

RECURSIVE Log2(_)
Log2(x) == IF x <= 1 THEN 0 ELSE 1 + Log2(x \div 2)

Abs(x) == IF x < 0 THEN -x ELSE x

PowInDomain(b, e) ==
    /\ Abs(b) <= MaxBase
    /\ e <= MaxExp
    /\ (e >= 0 \/ b \in {-1, 1})
    /\ (b > 0 => IsPow2(b))

\* exp.data * math.Pow(v.data, exp.data-1), for v.data # 0
PowBaseFactor(b, e) == IF e = 0 THEN 0 ELSE e * IPow(b, e - 1)

\* ---- nodes ----
Ids(ns) == 1..Len(ns)

convertToValue(data, children, op) ==
    [data |-> data, grad |-> PZero, children |-> children, op |-> op,
     backward |-> "noop"]

NewValue(ns, data) == Append(ns, convertToValue(data, <<>>, ""))

Add(ns, v, other) ==
    Append(ns, [convertToValue(ns[v].data + ns[other].data, <<v, other>>, "+")
                  EXCEPT !.backward = "Add"])

AddScalar(ns, v, scalar) ==
    Append(ns, [convertToValue(ns[v].data + scalar, <<v>>, "+scalar")
                  EXCEPT !.backward = "AddScalar"])

Multiply(ns, v, other) ==
    Append(ns, [convertToValue(ns[v].data * ns[other].data, <<v, other>>, "*")
                  EXCEPT !.backward = "Multiply"])

MulScalar(ns, v, scalar) ==
    LET s1 == Append(ns, convertToValue(scalar, <<>>, "scalar"))
    IN  Multiply(s1, v, Len(s1))

PowOp(e) == "**" \o ToString(e) \o ".000000"

Pow(ns, v, exp) ==
    Append(ns, [convertToValue(IPow(ns[v].data, ns[exp].data), <<v, exp>>,
                               PowOp(ns[exp].data))
                  EXCEPT !.backward = "Pow"])

PowScalar(ns, v, scalar) ==
    LET s1 == Append(ns, convertToValue(scalar, <<>>, "scalar"))
    IN  Pow(s1, v, Len(s1))

\* the bug of rectifying the operand in place as well
ReLUClampOperand(ns, v) ==
    Append([ns EXCEPT ![v].data = IF @ > 0 THEN @ ELSE 0],
           [convertToValue(IF ns[v].data > 0 THEN ns[v].data ELSE 0,
                           <<v>>, "ReLU")
              EXCEPT !.backward = "ReLU"])

ReLU(ns, v) ==
    Append(ns, [convertToValue(IF ns[v].data > 0 THEN ns[v].data ELSE 0,
                               <<v>>, "ReLU")
                  EXCEPT !.backward = "ReLU"])

Neg(ns, v) ==
    LET s1 == Append(ns, convertToValue(-1, <<>>, "neg"))
    IN  Multiply(s1, v, Len(s1))

Sub(ns, v, other) ==
    LET s1 == Neg(ns, other)
    IN  Add(s1, v, Len(s1))

SubScalar(ns, v, scalar) ==
    LET s1 == Append(ns, convertToValue(scalar, <<>>, ""))
    IN  Sub(s1, v, Len(s1))

Div(ns, v, other) ==
    LET s1 == PowScalar(ns, other, -1)
    IN  Multiply(s1, v, Len(s1))

DivScalar(ns, v, scalar) ==
    LET s1 == Append(ns, convertToValue(scalar, <<>>, "scalar"))
    IN  Div(s1, v, Len(s1))

\* ---- the derivative rules (the backward closures) ----
\* the bug "=" for "+="
AssignGrad(ns, n, p) == [ns EXCEPT ![n].grad = p]

\* n.grad += p
AddGrad(ns, n, p) == [ns EXCEPT ![n].grad = PAdd(@, p)]

\* the bug of leaving out other.grad += out.grad
AddBackwardFirstOnly(ns, out) == AddGrad(ns, ns[out].children[1], ns[out].grad)

AddBackward(ns, out) ==
    LET v == ns[out].children[1]
        other == ns[out].children[2]
        s1 == AddGrad(ns, v, ns[out].grad)
    IN  AddGrad(s1, other, s1[out].grad)

AddScalarBackward(ns, out) ==
    AddGrad(ns, ns[out].children[1], ns[out].grad)

\* the bug of giving each operand its own value as factor
MultiplyBackwardOwn(ns, out) ==
    LET v == ns[out].children[1]
        other == ns[out].children[2]
        s1 == AddGrad(ns, v, PScale(ns[v].data, ns[out].grad))
    IN  AddGrad(s1, other, PScale(s1[other].data, s1[out].grad))

MultiplyBackward(ns, out) ==
    LET v == ns[out].children[1]
        other == ns[out].children[2]
        s1 == AddGrad(ns, v, PScale(ns[other].data, ns[out].grad))
    IN  AddGrad(s1, other, PScale(s1[v].data, s1[out].grad))

\* the bug of guarding the base term with v.data > 0 too
PowBackwardPositiveOnly(ns, out) ==
    LET v == ns[out].children[1]
        exp == ns[out].children[2]
        s1 == IF ns[v].data > 0
              THEN AddGrad(ns, v, PScale(PowBaseFactor(ns[v].data, ns[exp].data),
                                         ns[out].grad))
              ELSE ns
    IN  IF s1[v].data > 0
        THEN AddGrad(s1, exp, PLog(Log2(s1[v].data) * s1[out].data, s1[out].grad))
        ELSE s1

PowBackward(ns, out) ==
    LET v == ns[out].children[1]
        exp == ns[out].children[2]
        s1 == IF ns[v].data # 0
              THEN AddGrad(ns, v, PScale(PowBaseFactor(ns[v].data, ns[exp].data),
                                         ns[out].grad))
              ELSE ns
    IN  IF s1[v].data > 0
        THEN AddGrad(s1, exp, PLog(Log2(s1[v].data) * s1[out].data, s1[out].grad))
        ELSE s1

\* the bug of testing v.data >= 0
ReLUBackwardNonStrict(ns, out) ==
    LET v == ns[out].children[1]
    IN  IF ns[v].data >= 0 THEN AddGrad(ns, v, ns[out].grad) ELSE ns

ReLUBackward(ns, out) ==
    LET v == ns[out].children[1]
    IN  IF ns[v].data > 0 THEN AddGrad(ns, v, ns[out].grad) ELSE ns

RunBackward(ns, n) ==
    CASE ns[n].backward = "Add" -> AddBackward(ns, n)
      [] ns[n].backward = "AddScalar" -> AddScalarBackward(ns, n)
      [] ns[n].backward = "Multiply" -> MultiplyBackward(ns, n)
      [] ns[n].backward = "Pow" -> PowBackward(ns, n)
      [] ns[n].backward = "ReLU" -> ReLUBackward(ns, n)
      [] OTHER -> ns

\* ---- Init ----
Init ==
    /\ nodes = <<>>
    /\ pc = "idle"
    /\ stack = <<>>
    /\ visited = {}
    /\ topo = <<>>
    /\ processed = {}
    /\ idx = 0
    /\ budget \in Budgets
    /\ nctor = 0
    /\ nset = 0
    /\ step = 0
    /\ passes = <<>>
    /\ calls = <<>>
    /\ fin = <<>>

\* ---- constructor calls of the client ----
Allocate(ns) ==
    /\ pc = "idle"
    /\ nodes' = ns
    /\ nctor' = nctor + 1
    /\ UNCHANGED <<pc, stack, visited, topo, processed, idx, budget, nset,
                   passes, calls, fin>>

Construct(ns) ==
    /\ nctor < budget.ctor
    /\ Allocate(ns)
    /\ UNCHANGED step

CallNewValue == \E d \in LeafVals : Construct(NewValue(nodes, d))

CallAdd == \E v, other \in Ids(nodes) : Construct(Add(nodes, v, other))

CallAddScalar ==
    \E v \in Ids(nodes), s \in Scalars : Construct(AddScalar(nodes, v, s))

CallMultiply == \E v, other \in Ids(nodes) : Construct(Multiply(nodes, v, other))

CallMulScalar ==
    \E v \in Ids(nodes), s \in Scalars : Construct(MulScalar(nodes, v, s))

CallPow ==
    \E v, exp \in Ids(nodes) :
        /\ PowInDomain(nodes[v].data, nodes[exp].data)
        /\ Construct(Pow(nodes, v, exp))

CallPowScalar ==
    \E v \in Ids(nodes), s \in Scalars :
        /\ PowInDomain(nodes[v].data, s)
        /\ Construct(PowScalar(nodes, v, s))

CallReLU == \E v \in Ids(nodes) : Construct(ReLU(nodes, v))

CallNeg == \E v \in Ids(nodes) : Construct(Neg(nodes, v))

CallSub == \E v, other \in Ids(nodes) : Construct(Sub(nodes, v, other))

CallSubScalar ==
    \E v \in Ids(nodes), s \in Scalars : Construct(SubScalar(nodes, v, s))

CallDiv ==
    \E v, other \in Ids(nodes) :
        /\ PowInDomain(nodes[other].data, -1)
        /\ Construct(Div(nodes, v, other))

CallDivScalar ==
    \E v \in Ids(nodes), s \in Scalars :
        /\ PowInDomain(s, -1)
        /\ Construct(DivScalar(nodes, v, s))

\* the client writes a node's gradient (result.grad = 1.0 in the tests)
SetGrad ==
    /\ pc = "idle"
    /\ nset < budget.sets
    /\ \E v \in Ids(nodes), g \in GradVals :
          nodes' = [nodes EXCEPT ![v].grad = PConst(g)]
    /\ nset' = nset + 1
    /\ UNCHANGED <<pc, stack, visited, topo, processed, idx, budget, nctor,
                   step, passes, calls, fin>>

\* ---- Backward ----
\* the bug of keying the maps on a node's value and operator
KeyByValue(n) == <<nodes[n].data, nodes[n].op>>

\* the key of node n in the maps visited and processed: the pointer
Key(n) == n

\* the bug of a hidden reset: every gradient is zeroed before the root is seeded
SeedAfterReset(ns, v) ==
    [n \in Ids(ns) |-> [ns[n] EXCEPT !.grad = IF n = v THEN POne ELSE PZero]]

\* the bug v.grad += 1.0
SeedAccumulate(ns, v) == [ns EXCEPT ![v].grad = PAdd(@, POne)]

\* v.grad = 1.0
Seed(ns, v) == [ns EXCEPT ![v].grad = POne]

GradsOf(ns) == [n \in Ids(ns) |-> ns[n].grad]

\* v.Backward() is entered: v.grad = 1.0, topo and visited are empty, and
\* buildTopo(v) finds v unvisited
Backward(v) ==
    /\ pc = "idle"
    /\ passes' = Append(passes, [root |-> v, before |-> GradsOf(nodes),
                                 nset |-> nset])
    /\ nodes' = Seed(nodes, v)
    /\ visited' = {Key(v)}
    /\ stack' = <<[node |-> v, next |-> 1]>>
    /\ topo' = <<>>
    /\ processed' = {}
    /\ idx' = 0
    /\ pc' = "topo"
    /\ calls' = [n \in Ids(nodes) |-> 0]
    /\ fin' = [n \in Ids(nodes) |-> PZero]
    /\ UNCHANGED <<budget, nctor, nset>>

CallBackward ==
    /\ Len(passes) < budget.back
    /\ \E v \in Ids(nodes) : Backward(v)
    /\ UNCHANGED step

\* the bug of putting the node in front
PrependTopo(tp, node) == <<node>> \o tp

\* topo = append(topo, node)
AppendTopo(tp, node) == Append(tp, node)

\* the bug of walking topo from its first element to its last
AtForward(tp, i) == tp[Len(tp) + 1 - i]

\* node := topo[i], for the i-th element counted from 1
At(tp, i) == tp[i]

\* the node of the iteration the backward pass is at
Current == At(topo, idx)

\* one step of buildTopo: the innermost activation takes its next child, or
\* appends its node and returns
BuildTopoStep ==
    /\ pc = "topo"
    /\ stack # <<>>
    /\ LET f == stack[Len(stack)]
           rest == SubSeq(stack, 1, Len(stack) - 1)
           ch == nodes[f.node].children
       IN  IF f.next <= Len(ch)
           THEN LET child == ch[f.next]
                    f2 == [f EXCEPT !.next = f.next + 1]
                IN  IF Key(child) \notin visited
                    THEN /\ visited' = visited \cup {Key(child)}
                         /\ stack' = Append(Append(rest, f2),
                                            [node |-> child, next |-> 1])
                         /\ topo' = topo
                    ELSE /\ visited' = visited
                         /\ stack' = Append(rest, f2)
                         /\ topo' = topo
           ELSE /\ topo' = AppendTopo(topo, f.node)
                /\ stack' = rest
                /\ visited' = visited
    /\ UNCHANGED <<nodes, pc, processed, idx, budget, nctor, nset, step,
                   passes, calls, fin>>

\* buildTopo(v) has returned: i := len(topo) - 1
BuildTopoReturn ==
    /\ pc = "topo"
    /\ stack = <<>>
    /\ idx' = Len(topo)
    /\ pc' = "reverse"
    /\ UNCHANGED <<nodes, stack, visited, topo, processed, budget, nctor, nset,
                   step, passes, calls, fin>>

\* the bug of a loop that never decrements i
SameIndex(i) == i

\* i--
NextIndex(i) == i - 1

\* one iteration of the backward pass loop
ReverseStep ==
    /\ pc = "reverse"
    /\ idx >= 1
    /\ LET node == Current
       IN  IF Key(node) \notin processed
           THEN /\ processed' = processed \cup {Key(node)}
                /\ nodes' = RunBackward(nodes, node)
                /\ calls' = [calls EXCEPT ![node] = @ + 1]
                /\ fin' = [fin EXCEPT ![node] = nodes[node].grad]
           ELSE UNCHANGED <<processed, nodes, calls, fin>>
    /\ idx' = NextIndex(idx)
    /\ UNCHANGED <<pc, stack, visited, topo, budget, nctor, nset, step, passes>>

BackwardReturn ==
    /\ pc = "reverse"
    /\ idx = 0
    /\ pc' = "idle"
    /\ UNCHANGED <<nodes, stack, visited, topo, processed, idx, budget, nctor,
                   nset, step, passes, calls, fin>>

\* ---- the scripted client: TestSanityCheck ----
\* x is node 1, z node 5, q node 8, h node 10, y node 13
TestSanityCheck ==
    /\ step' = step + 1
    /\ CASE step = 0 -> \E d \in LeafVals : Allocate(NewValue(nodes, d))
         [] step = 1 -> Allocate(MulScalar(nodes, 1, 2))
         [] step = 2 -> Allocate(AddScalar(nodes, 3, 2))
         [] step = 3 -> Allocate(Add(nodes, 4, 1))
         [] step = 4 -> Allocate(ReLU(nodes, 5))
         [] step = 5 -> Allocate(Multiply(nodes, 5, 1))
         [] step = 6 -> Allocate(Add(nodes, 6, 7))
         [] step = 7 -> Allocate(Multiply(nodes, 5, 5))
         [] step = 8 -> Allocate(ReLU(nodes, 9))
         [] step = 9 -> Allocate(Add(nodes, 10, 8))
         [] step = 10 -> Allocate(Multiply(nodes, 8, 1))
         [] step = 11 -> Allocate(Add(nodes, 11, 12))
         [] step = 12 -> Backward(13)
         [] OTHER -> FALSE

Next ==
    \/ CallNewValue
    \/ CallAdd
    \/ CallAddScalar
    \/ CallMultiply
    \/ CallMulScalar
    \/ CallPow
    \/ CallPowScalar
    \/ CallReLU
    \/ CallNeg
    \/ CallSub
    \/ CallSubScalar
    \/ CallDiv
    \/ CallDivScalar
    \/ SetGrad
    \/ CallBackward
    \/ BuildTopoStep
    \/ BuildTopoReturn
    \/ ReverseStep
    \/ BackwardReturn

Spec == Init /\ [][Next]_vars

InitSanity ==
    /\ nodes = <<>>
    /\ pc = "idle"
    /\ stack = <<>>
    /\ visited = {}
    /\ topo = <<>>
    /\ processed = {}
    /\ idx = 0
    /\ budget = NoBudget
    /\ nctor = 0
    /\ nset = 0
    /\ step = 0
    /\ passes = <<>>
    /\ calls = <<>>
    /\ fin = <<>>

NextSanity ==
    \/ TestSanityCheck
    \/ BuildTopoStep
    \/ BuildTopoReturn
    \/ ReverseStep
    \/ BackwardReturn

SpecSanity == InitSanity /\ [][NextSanity]_vars

\* Backward is sequential code: once entered, its next step is taken
BackwardRuns ==
    /\ WF_vars(BuildTopoStep)
    /\ WF_vars(BuildTopoReturn)
    /\ WF_vars(ReverseStep)
    /\ WF_vars(BackwardReturn)

SpecFair == Init /\ [][Next]_vars /\ BackwardRuns

\* ---- what the claims speak of ----
Last == passes[Len(passes)]

Root == Last.root

Before == Last.before

\* the latest Backward has returned and the client has written no gradient since
\* it was called
Returned == pc = "idle" /\ passes # <<>> /\ Last.nset = nset

AllZero(gs) == \A n \in DOMAIN gs : gs[n] = PZero

Operands(ns, n) == {ns[n].children[k] : k \in 1..Len(ns[n].children)}

\* the nodes reachable from r through the operand relation, r included
RECURSIVE Reach(_, _)
Reach(ns, r) == {r} \cup UNION {Reach(ns, c) : c \in Operands(ns, r)}

\* the local derivative of node m with respect to its k-th operand, as the
\* monomial c * L^l (the table of operators, with the edge-case policy of Pow)
Local(ns, m, k) ==
    LET ch == ns[m].children
        kind == ns[m].backward
    IN  CASE kind = "Add" -> [c |-> 1, l |-> 0]
          [] kind = "AddScalar" -> [c |-> 1, l |-> 0]
          [] kind = "Multiply" -> [c |-> ns[ch[3 - k]].data, l |-> 0]
          [] kind = "Pow" /\ k = 1 ->
                [c |-> IF ns[ch[1]].data # 0
                       THEN ns[ch[2]].data * IPow(ns[ch[1]].data, ns[ch[2]].data - 1)
                       ELSE 0,
                 l |-> 0]
          [] kind = "Pow" /\ k = 2 ->
                [c |-> IF ns[ch[1]].data > 0
                       THEN Log2(ns[ch[1]].data) * ns[m].data
                       ELSE 0,
                 l |-> 1]
          [] kind = "ReLU" -> [c |-> IF ns[ch[1]].data > 0 THEN 1 ELSE 0, l |-> 0]
          [] OTHER -> [c |-> 0, l |-> 0]

PMono(m, p) == IF m.l = 0 THEN PScale(m.c, p) ELSE PLog(m.c, p)

RECURSIVE PSum(_, _, _)
PSum(f, lo, hi) == IF lo > hi THEN PZero ELSE PAdd(f[lo], PSum(f, lo + 1, hi))

\* the sum, over the operand paths from node from to node to, of the product
\* of the local derivatives along the path, each path counted once, or (byLength)
\* as often as it has nodes; d is the number of edges already walked
RECURSIVE PathSum(_, _, _, _, _)
PathSum(ns, from, to, d, byLength) ==
    IF from = to
    THEN PConst(IF byLength THEN d + 1 ELSE 1)
    ELSE LET ch == ns[from].children
             term == [k \in 1..Len(ch) |->
                        PMono(Local(ns, from, k),
                              PathSum(ns, ch[k], to, d + 1, byLength))]
         IN  PSum(term, 1, Len(ch))

\* d root / d n
PathGrad(ns, root, n) == PathSum(ns, root, n, 0, FALSE)

\* what the backward of node o adds to the gradient of node n when it runs in
\* state ns
Contribution(ns, o, n) ==
    LET ch == ns[o].children
        term == [k \in 1..Len(ch) |->
                    IF ch[k] = n THEN PMono(Local(ns, o, k), ns[o].grad) ELSE PZero]
    IN  PSum(term, 1, Len(ch))

IsTopoOrder(ns, tp, root) ==
    /\ Len(tp) = Cardinality(Reach(ns, root))
    /\ {tp[k] : k \in 1..Len(tp)} = Reach(ns, root)
    /\ \A k \in 1..Len(tp) :
          \A c \in Operands(ns, tp[k]) : \E j \in 1..(k - 1) : tp[j] = c
    /\ tp[Len(tp)] = root

\* C2: the order built by buildTopo lists the nodes reachable from the root,
\* each once and after all of its operands, the root last.
C2_TopologicalOrder == pc = "reverse" => IsTopoOrder(nodes, topo, Root)

\* buildTopo has returned an order of a graph in which a node is an operand of
\* two different nodes.
C2_Witness ==
    /\ pc = "reverse"
    /\ idx = Len(topo)
    /\ \E m1, m2 \in Reach(nodes, Root) :
          m1 # m2 /\ Operands(nodes, m1) \cap Operands(nodes, m2) # {}

Consumers(ns, root, n) == {m \in Reach(ns, root) : n \in Operands(ns, m)}

\* C3: when the backward of a node is about to run, the backward of every
\* reachable node that has it as an operand has run in this pass; and a node
\* whose backward has run keeps the gradient it had at that moment.
C3_FinalizedBeforeUse ==
    /\ (pc = "reverse" /\ idx >= 1) =>
          \A m \in Consumers(nodes, Root, Current) : calls[m] >= 1
    /\ (pc = "reverse" \/ Returned) =>
          \A n \in DOMAIN calls : calls[n] >= 1 => nodes[n].grad = fin[n]

\* The backward of a node with two different consumers is about to run.
C3_Witness ==
    /\ pc = "reverse"
    /\ idx >= 1
    /\ calls[Current] = 0
    /\ Cardinality(Consumers(nodes, Root, Current)) >= 2
    /\ nodes[Current].children # <<>>

\* C4: in one Backward(root) the backward of every node reachable from root
\* runs exactly once, and that of no other node runs.
C4_ExactlyOnce ==
    /\ pc \in {"topo", "reverse"} => \A n \in DOMAIN calls : calls[n] <= 1
    /\ (pc = "idle" /\ passes # <<>>) =>
          \A n \in DOMAIN calls :
              calls[n] = IF n \in Reach(nodes, Root) THEN 1 ELSE 0

\* Backward has returned on a root that uses one node twice as operand and
\* reaches two distinct nodes of equal value and operator, with a node left
\* out of reach.
C4_Witness ==
    /\ pc = "idle"
    /\ passes # <<>>
    /\ \E a, b \in Reach(nodes, Root) :
          /\ a # b
          /\ nodes[a].data = nodes[b].data
          /\ nodes[a].op = nodes[b].op
          /\ calls[a] = 1
          /\ calls[b] = 1
    /\ \E n \in DOMAIN calls : n \notin Reach(nodes, Root) /\ calls[n] = 0

\* C5: Backward(root) leaves the gradient of every node not reachable from
\* root as it was.
C5_UnreachableUntouched ==
    (passes # <<>> /\ Last.nset = nset) =>
        \A n \in DOMAIN Before :
            n \notin Reach(nodes, Root) => nodes[n].grad = Before[n]

\* Backward(root) has returned while a node that consumes root holds a
\* gradient other than 0.
C5_Witness ==
    /\ Returned
    /\ \E n \in DOMAIN Before :
          /\ n \notin Reach(nodes, Root)
          /\ Root \in Operands(nodes, n)
          /\ nodes[n].grad # PZero

\* Backward has been called twice, both times on the same root, the first time
\* on a graph whose gradients were all 0, the client writing no gradient
SameRootTwice ==
    /\ pc = "idle"
    /\ Len(passes) = 2
    /\ nset = 0
    /\ passes[1].root = passes[2].root
    /\ AllZero(passes[1].before)

\* C6 as claimed: the second Backward on the same root leaves every non-root
\* node reachable from the root with twice the gradient it held after the first.
C6_Doubled ==
    SameRootTwice =>
        \A n \in Reach(nodes, Root) \ {Root} :
            nodes[n].grad = PScale(2, passes[2].before[n])

\* the operands of the root that no other node reachable from the root uses
DirectOnly(ns, root) ==
    {n \in Operands(ns, root) : Consumers(ns, root, n) = {root}}

\* C6, amended: the second Backward adds to what the first left: a non-root
\* node reachable from the root ends with the sum over the operand paths from
\* the root of (edges of the path + 1) times the product of the local
\* derivatives, which is twice its gradient after the first call for the
\* operands of the root that no other reachable node uses.
C6_AccumulatedTwice ==
    SameRootTwice =>
        /\ \A n \in Reach(nodes, Root) \ {Root} :
              nodes[n].grad = PathSum(nodes, Root, n, 0, TRUE)
        /\ \A n \in DirectOnly(nodes, Root) :
              nodes[n].grad = PScale(2, passes[2].before[n])

\* Backward has returned twice on a root with a node two operand edges away,
\* which holds three times the gradient the first call gave it.
C6_Witness ==
    /\ SameRootTwice
    /\ \E n \in Reach(nodes, Root) \ (Operands(nodes, Root) \cup {Root}) :
          /\ passes[2].before[n] # PZero
          /\ nodes[n].grad = PScale(3, passes[2].before[n])
    /\ \E n \in DirectOnly(nodes, Root) : nodes[n].grad # PZero

\* TestSanityCheck has run to its end with x = -4
SanityDone == pc = "idle" /\ step = 13 /\ nodes[1].data = -4

\* C7 as claimed: y.value = 3 and x.grad = 46.
C7_SanityAsClaimed ==
    SanityDone => nodes[13].data = 3 /\ nodes[1].grad = PConst(46)

\* C7, amended: in the canonical scenario with x = -4, Backward(y) leaves
\* y.value = -20 and x.grad = 46.
C7_Sanity ==
    SanityDone => nodes[13].data = -20 /\ nodes[1].grad = PConst(46)

\* TestSanityCheck has run to its end with x = -4, where z = -10.
C7_Witness == SanityDone /\ nodes[13].grad = POne /\ nodes[5].data = -10

\* the backward of node o runs in this step
Runs(o) == pc = "reverse" /\ calls'[o] = calls[o] + 1

\* a step in which the backward of a Pow node runs changes the gradients by
\* the two guarded terms and nothing else
C8_PowRuleStep ==
    \A o \in DOMAIN calls :
        (Runs(o) /\ nodes[o].backward = "Pow") =>
            LET a == nodes[o].children[1]
                b == nodes[o].children[2]
                base == IF nodes[a].data # 0
                        THEN PScale(nodes[b].data
                                      * IPow(nodes[a].data, nodes[b].data - 1),
                                    nodes[o].grad)
                        ELSE PZero
                expo == IF nodes[a].data > 0
                        THEN PLog(Log2(nodes[a].data) * nodes[o].data, nodes[o].grad)
                        ELSE PZero
            IN  \A n \in Ids(nodes) :
                    nodes'[n].grad =
                        PAdd(PAdd(nodes[n].grad, IF n = a THEN base ELSE PZero),
                             IF n = b THEN expo ELSE PZero)

\* Backward(PowScalar(a, e)) has returned, for a leaf a = base with gradient 0
PowScalarOfLeaf(base, e) ==
    /\ Returned
    /\ AllZero(Before)
    /\ nodes[Root].backward = "Pow"
    /\ nodes[nodes[Root].children[1]].children = <<>>
    /\ nodes[nodes[Root].children[1]].data = base
    /\ nodes[nodes[Root].children[2]].op = "scalar"
    /\ nodes[nodes[Root].children[2]].data = e

\* the example of the claim
C8_PowExample ==
    PowScalarOfLeaf(-4, 2) =>
        /\ nodes[Root].data = 16
        /\ nodes[nodes[Root].children[1]].grad = PConst(-8)
        /\ nodes[nodes[Root].children[2]].grad = PZero

\* C8: the backward of out = Pow(a, b) adds b.value * a.value^(b.value-1) *
\* out.grad to a.grad exactly when a.value # 0 and ln(a.value) * out.value *
\* out.grad to b.grad exactly when a.value > 0, and changes no other gradient;
\* Backward(PowScalar(a, 2)) for a leaf a = -4 leaves a.grad = -8 and the
\* gradient of the exponent 0.
C8_PowRule == []C8_PowExample /\ [][C8_PowRuleStep]_vars

\* Backward(PowScalar(a, 2)) has returned for a leaf a = -4.
C8_Witness == PowScalarOfLeaf(-4, 2)

\* Backward has returned: the root holds 1
C9_RootIsOne == Returned => nodes[Root].grad = POne

\* the writes of one step of Backward
C9_WritesStep ==
    /\ (pc = "idle" /\ pc' = "topo") =>
          \A n \in Ids(nodes) :
              nodes'[n].grad = IF n = Root' THEN POne ELSE nodes[n].grad
    /\ (pc = "topo") => \A n \in Ids(nodes) : nodes'[n].grad = nodes[n].grad
    /\ (pc = "reverse") =>
          \A n \in Ids(nodes) :
              nodes'[n].grad =
                  IF idx >= 1 /\ Runs(Current)
                  THEN PAdd(nodes[n].grad, Contribution(nodes, Current, n))
                  ELSE nodes[n].grad

\* C9: when Backward(root) returns, root.grad is 1 whatever it was before;
\* entering Backward overwrites the gradient of the root alone, and every
\* later step of Backward adds to the gradients (what the backward that runs
\* contributes) without overwriting any.
C9_Reseed == []C9_RootIsOne /\ [][C9_WritesStep]_vars

\* Backward(root) has returned on a root that held a gradient other than 0
\* and 1 before the call, accumulated by an earlier Backward.
C9_Witness ==
    /\ Returned
    /\ Len(passes) = 2
    /\ nset = 0
    /\ Before[Root] \notin {PZero, POne}
    /\ nodes[Root].grad = POne

\* a step in which the backward of a ReLU node runs
C10_ReLURuleStep ==
    \A o \in DOMAIN calls :
        (Runs(o) /\ nodes[o].backward = "ReLU") =>
            LET a == nodes[o].children[1]
            IN  \A n \in Ids(nodes) :
                    nodes'[n].grad =
                        IF n = a /\ nodes[a].data > 0
                        THEN PAdd(nodes[n].grad, nodes[o].grad)
                        ELSE nodes[n].grad

\* Backward(ReLU(a)) has returned, for a leaf a = d with gradient 0
ReLUOfLeaf(d) ==
    /\ Returned
    /\ AllZero(Before)
    /\ nodes[Root].backward = "ReLU"
    /\ nodes[nodes[Root].children[1]].children = <<>>
    /\ nodes[nodes[Root].children[1]].data = d

\* the boundary example of the claim
C10_ReLUExample ==
    ReLUOfLeaf(0) =>
        /\ nodes[Root].data = 0
        /\ nodes[nodes[Root].children[1]].grad = PZero

\* C10: the backward of out = ReLU(a) adds out.grad to a.grad when a.value > 0
\* and nothing otherwise, and changes no other gradient; for a leaf a = 0 with
\* gradient 0, ReLU(a) has value 0 and Backward(ReLU(a)) leaves a.grad = 0.
C10_ReLURule == []C10_ReLUExample /\ [][C10_ReLURuleStep]_vars

\* Backward(ReLU(a)) has returned for a leaf a = 0.
C10_Witness == ReLUOfLeaf(0)

\* what a step leaves of node n: its value, operator tag, operand list and
\* derivative rule, and in a step outside Backward its gradient too unless
\* the client writes it
KeepsNode(n) ==
    /\ nodes'[n].data = nodes[n].data
    /\ nodes'[n].op = nodes[n].op
    /\ nodes'[n].children = nodes[n].children
    /\ nodes'[n].backward = nodes[n].backward
    /\ (pc = "idle" /\ pc' = "idle" /\ nset' = nset) =>
          nodes'[n].grad = nodes[n].grad

C11_FrameStep ==
    /\ Len(nodes') >= Len(nodes)
    /\ \A n \in Ids(nodes) : KeepsNode(n)

\* C11: no step of a constructor or of Backward changes the value, the
\* operator tag or the operand list of a node that exists, nor removes a node:
\* Backward changes gradients only, and a constructor call changes no field,
\* the gradient included, of a node that existed before it.
C11_ImmutableNodes == [][C11_FrameStep]_vars

\* A constructor has returned a node built on an operand that holds a
\* gradient other than 0, left by an earlier Backward.
C11_Witness ==
    /\ pc = "idle"
    /\ passes # <<>>
    /\ Len(nodes) > Len(Before)
    /\ \E n \in DOMAIN Before :
          /\ n \in Operands(nodes, Len(nodes))
          /\ nodes[n].grad # PZero
          /\ nodes[n].data < 0

\* every operand of a node was allocated before the node
Acyclic == \A n \in Ids(nodes) : \A c \in Operands(nodes, n) : c < n

\* C12: every graph the constructors build is acyclic, and every Backward
\* that is entered on such a graph returns.
C12_BackwardTerminates == []Acyclic /\ ((pc # "idle") ~> (pc = "idle"))

\* Backward has returned on the result of DivScalar, a graph of five nodes
\* built by nested constructors, after visiting all of them.
C12_Witness ==
    /\ pc = "idle"
    /\ passes # <<>>
    /\ Root = Len(nodes)
    /\ Cardinality(Reach(nodes, Root)) >= 5
    /\ Len(topo) = Cardinality(Reach(nodes, Root))

====
